---- MODULE Spec2Model ----
(***************************************************************************)
(* Model of scripts/fix_use_client.py: the 'use client' directive          *)
(* normalizer (fix_use_client_in_file) and the tree walker (main).         *)
(*                                                                         *)
(* A text is a sequence of tokens.  The marker literal 'use client' is one *)
(* token; the other tokens are the characters the code tells apart: the    *)
(* statement separator, a whitespace character, line feed, carriage        *)
(* return, and any other character.                                        *)
(***************************************************************************)
EXTENDS Integers, Sequences, FiniteSets, TLC

MARKER == "'use client'"
SEMI == ";"
SP == " "
NL == "\n"
CR == "\r"
CH == "x"

Alphabet == {MARKER, SEMI, SP, NL, CR, CH}

\* Longest file content drawn in the single-file specification.
MaxLen == 6
\* Number of consecutive normalizer runs on the same file.
MaxRuns == 2

RECURSIVE SeqsUpTo(_)
SeqsUpTo(n) ==
    IF n = 0 THEN {<<>>}
    ELSE LET shorter == SeqsUpTo(n - 1)
         IN  shorter \cup {Append(s, c) : s \in {t \in shorter : Len(t) = n - 1}, c \in Alphabet}

Contents == SeqsUpTo(MaxLen)

----------------------------------------------------------------------------
(* Text-mode file I/O of open(filepath, 'r') / open(filepath, 'w').        *)

\* read(): universal newlines, "\r\n" and a lone "\r" both become "\n".
RECURSIVE ReadText(_)
ReadText(bytes) ==
    IF bytes = <<>> THEN <<>>
    ELSE IF bytes[1] = CR
         THEN IF Len(bytes) >= 2 /\ bytes[2] = NL
              THEN <<NL>> \o ReadText(SubSeq(bytes, 3, Len(bytes)))
              ELSE <<NL>> \o ReadText(Tail(bytes))
         ELSE <<bytes[1]>> \o ReadText(Tail(bytes))

\* os.linesep on the POSIX host the hardcoded root_dir belongs to.
LineSep == <<NL>>

\* write(): every "\n" is written as os.linesep.
RECURSIVE WriteText(_)
WriteText(text) ==
    IF text = <<>> THEN <<>>
    ELSE (IF text[1] = NL THEN LineSep ELSE <<text[1]>>) \o WriteText(Tail(text))

----------------------------------------------------------------------------
(* String helpers used by fix_use_client_in_file.                          *)

\* "'use client'" in s
HasMarker(s) == \E i \in 1..Len(s) : s[i] = MARKER

\* content.split('\n'): always at least one line.
RECURSIVE Split(_)
Split(s) ==
    IF \A i \in 1..Len(s) : s[i] # NL THEN <<s>>
    ELSE LET k == CHOOSE i \in 1..Len(s) : s[i] = NL /\ \A j \in 1..(i - 1) : s[j] # NL
         IN  <<SubSeq(s, 1, k - 1)>> \o Split(SubSeq(s, k + 1, Len(s)))

\* '\n'.join(lines)
RECURSIVE Join(_)
Join(lines) ==
    IF lines = <<>> THEN <<>>
    ELSE IF Len(lines) = 1 THEN lines[1]
    ELSE lines[1] \o <<NL>> \o Join(Tail(lines))

IsSpace(c) == c \in {SP, NL, CR}

\* str.strip(): drops leading and trailing whitespace.
RECURSIVE LStrip(_)
LStrip(s) == IF s # <<>> /\ IsSpace(s[1]) THEN LStrip(Tail(s)) ELSE s

RECURSIVE RStrip(_)
RStrip(s) == IF s # <<>> /\ IsSpace(s[Len(s)]) THEN RStrip(SubSeq(s, 1, Len(s) - 1)) ELSE s

Strip(s) == RStrip(LStrip(s))

\* The canonical marker statement "'use client';"
Canonical == <<MARKER, SEMI>>

\* Variants of the already-at-top test: comparing against the marker without
\* its separator, accepting any first line that contains the marker, and
\* comparing without strip().
AlreadyAtTopNoSemi(lines) == lines # <<>> /\ Strip(lines[1]) = <<MARKER>>

AlreadyAtTopAnyMarker(lines) == lines # <<>> /\ HasMarker(lines[1])

AlreadyAtTopNoStrip(lines) == lines # <<>> /\ lines[1] = Canonical

\* lines and lines[0].strip() == "'use client';"
AlreadyAtTop(lines) == lines # <<>> /\ Strip(lines[1]) = Canonical

\* Variants of the scan loop: one that drops every line containing the
\* marker, one that only recognises a line equal to the canonical statement.
RECURSIVE ScanLinesAll(_, _, _)
ScanLinesAll(lines, use_client_found, new_lines) ==
    IF lines = <<>> THEN [use_client_found |-> use_client_found, new_lines |-> new_lines]
    ELSE IF HasMarker(lines[1])
         THEN ScanLinesAll(Tail(lines), TRUE, new_lines)
         ELSE ScanLinesAll(Tail(lines), use_client_found, Append(new_lines, lines[1]))

RECURSIVE ScanLinesExact(_, _, _)
ScanLinesExact(lines, use_client_found, new_lines) ==
    IF lines = <<>> THEN [use_client_found |-> use_client_found, new_lines |-> new_lines]
    ELSE IF Strip(lines[1]) = Canonical /\ ~use_client_found
         THEN ScanLinesExact(Tail(lines), TRUE, new_lines)
         ELSE ScanLinesExact(Tail(lines), use_client_found, Append(new_lines, lines[1]))

\* The scan loop: skips the first line containing the marker, keeps the rest.
RECURSIVE ScanLines(_, _, _)
ScanLines(lines, use_client_found, new_lines) ==
    IF lines = <<>> THEN [use_client_found |-> use_client_found, new_lines |-> new_lines]
    ELSE IF HasMarker(lines[1]) /\ ~use_client_found
         THEN ScanLines(Tail(lines), TRUE, new_lines)
         ELSE ScanLines(Tail(lines), use_client_found, Append(new_lines, lines[1]))

\* re.sub(r"^'use client';\n\n+", "'use client';\n\n", s): ^ matches only at
\* the start of the string, \n+ is greedy.
RECURSIVE DropLeadingNL(_)
DropLeadingNL(s) == IF s # <<>> /\ s[1] = NL THEN DropLeadingNL(Tail(s)) ELSE s

\* Variant without the collapse.
CollapseBlankLinesNone(s) == s

CollapseBlankLines(s) ==
    IF Len(s) >= 4 /\ SubSeq(s, 1, 4) = Canonical \o <<NL, NL>>
    THEN Canonical \o <<NL, NL>> \o DropLeadingNL(SubSeq(s, 5, Len(s)))
    ELSE s

\* fix_use_client_in_file on a file holding `bytes`, with no I/O failure:
\* the return value, the bytes on disk afterwards, whether the file was
\* opened for writing, and which return statement was taken.
fix_use_client_in_file(bytes) ==
    LET content == ReadText(bytes)
        lines == Split(content)
        scan == ScanLines(lines, FALSE, <<>>)
        final_content == CollapseBlankLines(Canonical \o <<NL, NL>> \o Join(scan.new_lines))
        untouched(at) == [ret |-> FALSE, disk |-> bytes, wrote |-> FALSE, exit |-> at]
    IN  IF ~HasMarker(content) THEN untouched("no_marker")
        ELSE IF AlreadyAtTop(lines) THEN untouched("already_top")
        ELSE IF ~scan.use_client_found THEN untouched("not_found")
        ELSE [ret |-> TRUE, disk |-> WriteText(final_content), wrote |-> TRUE, exit |-> "fixed"]

----------------------------------------------------------------------------
(* The tree walker, main().                                                *)
(*                                                                         *)
(* A path is a sequence of tokens relative to root_dir: the separator "/", *)
(* the two excluded names, the extensions, and other name parts.  The      *)
(* hardcoded root_dir contains neither excluded name.                      *)

NODE_MODULES == "node_modules"
DOT_NEXT == ".next"

\* for ext in ['*.tsx', '*.ts']
Exts == <<".tsx", ".ts">>

\* The files under root_dir.
Tree ==
    { <<"app", "/", "page", ".tsx">>,
      <<"lib", ".ts">>,
      <<"hooks", "/", "use", ".ts">>,
      <<NODE_MODULES, "/", "pkg", ".ts">>,
      <<DOT_NEXT, "/", "chunk", ".tsx">>,
      <<"docs", DOT_NEXT, ".ts">>,
      <<"readme", ".md">> }

\* File contents the tree is populated with: no marker, marker already on
\* top, marker misplaced.
SampleContents ==
    { <<CH>>,
      <<MARKER, SEMI, NL, NL, CH>>,
      <<CH, NL, MARKER, SEMI>> }

\* root_dir.rglob(ext): the paths whose name ends with the extension.
Glob(ext) == {p \in Tree : p[Len(p)] = ext}

\* name in str(filepath)
InPath(name, p) == \E i \in 1..Len(p) : p[i] = name

\* Variant that skips only the dependency directory.
ExcludedOnlyNodeModules(p) == InPath(NODE_MODULES, p)

\* 'node_modules' in str(filepath) or '.next' in str(filepath)
Excluded(p) == InPath(NODE_MODULES, p) \/ InPath(DOT_NEXT, p)

\* Variant that counts every processed file.
CountAll(n, changed) == n + 1

\* if fix_use_client_in_file(filepath): fixed_count += 1
Count(n, changed) == IF changed THEN n + 1 ELSE n

\* The proper prefixes of a text: what a failed write can leave on disk
\* after open(filepath, 'w') has truncated the file.
Prefixes(text) == {SubSeq(text, 1, n) : n \in 0..(Len(text) - 1)}

VARIABLES
    file,          \* single-file specification: bytes of the file
    runs,          \* single-file specification: one record per call
    fs,            \* path -> bytes on disk
    fs0,           \* fs when main started
    pc,            \* "idle", "walk", "done" or "crashed"
    ext_i,         \* index into Exts of the outer loop
    pending,       \* paths rglob has still to yield for the current pattern
    fixed_count,
    out,           \* lines printed to standard output
    passed,        \* paths handed to fix_use_client_in_file
    io_failed      \* an open/read/write has raised

fvars == <<file, runs>>
mvars == <<fs, fs0, pc, ext_i, pending, fixed_count, out, passed, io_failed>>
vars == <<file, runs, fs, fs0, pc, ext_i, pending, fixed_count, out, passed, io_failed>>

\* Variant in which the exception is caught and the walk goes on.
Swallow == pc' = "walk"

\* No try/except anywhere: an exception unwinds fix_use_client_in_file and
\* main and ends the process.
Propagate == pc' = "crashed"

MainNotStarted ==
    /\ fs = <<>> /\ fs0 = <<>> /\ pc = "idle" /\ ext_i = 0 /\ pending = {}
    /\ fixed_count = 0 /\ out = <<>> /\ passed = {} /\ io_failed = FALSE

InitMain ==
    /\ file = <<>>
    /\ runs = <<>>
    /\ fs \in [Tree -> SampleContents]
    /\ fs0 = fs
    /\ pc = "walk"
    /\ ext_i = 1
    /\ pending = Glob(Exts[1])
    /\ fixed_count = 0
    /\ out = <<>>
    /\ passed = {}
    /\ io_failed = FALSE

\* The loop body on an excluded path: continue.
Skip(p) ==
    /\ pc = "walk"
    /\ p \in pending
    /\ Excluded(p)
    /\ pending' = pending \ {p}
    /\ UNCHANGED <<file, runs, fs, fs0, pc, ext_i, fixed_count, out, passed, io_failed>>

\* The loop body on any other path, no I/O failure.
Fix(p) ==
    /\ pc = "walk"
    /\ p \in pending
    /\ ~Excluded(p)
    /\ LET r == fix_use_client_in_file(fs[p])
       IN  /\ fs' = [fs EXCEPT ![p] = r.disk]
           /\ out' = IF r.ret THEN Append(out, <<"Fixed", p>>) ELSE out
           /\ fixed_count' = Count(fixed_count, r.ret)
    /\ passed' = passed \cup {p}
    /\ pending' = pending \ {p}
    /\ UNCHANGED <<file, runs, fs0, pc, ext_i, io_failed>>

\* open(filepath, 'r') or f.read() raises.
ReadError(p) ==
    /\ pc = "walk"
    /\ p \in pending
    /\ ~Excluded(p)
    /\ passed' = passed \cup {p}
    /\ io_failed' = TRUE
    /\ Propagate
    /\ UNCHANGED <<file, runs, fs, fs0, ext_i, pending, fixed_count, out>>

\* open(filepath, 'w') or f.write() raises: the file keeps its bytes (open
\* failed) or holds a proper prefix of the new content.
WriteError(p) ==
    /\ pc = "walk"
    /\ p \in pending
    /\ ~Excluded(p)
    /\ LET r == fix_use_client_in_file(fs[p])
       IN  /\ r.wrote
           /\ \E left \in {fs[p]} \cup Prefixes(r.disk) : fs' = [fs EXCEPT ![p] = left]
    /\ passed' = passed \cup {p}
    /\ io_failed' = TRUE
    /\ Propagate
    /\ UNCHANGED <<file, runs, fs0, ext_i, pending, fixed_count, out>>

\* rglob is exhausted for the current pattern: the outer loop moves on.
NextExt ==
    /\ pc = "walk"
    /\ pending = {}
    /\ ext_i < Len(Exts)
    /\ ext_i' = ext_i + 1
    /\ pending' = Glob(Exts[ext_i + 1])
    /\ UNCHANGED <<file, runs, fs, fs0, pc, fixed_count, out, passed, io_failed>>

\* print(f"\nTotal files fixed: {fixed_count}")
Summary ==
    /\ pc = "walk"
    /\ pending = {}
    /\ ext_i = Len(Exts)
    /\ out' = Append(out, <<"Total files fixed", fixed_count>>)
    /\ pc' = "done"
    /\ UNCHANGED <<file, runs, fs, fs0, ext_i, pending, fixed_count, passed, io_failed>>

NextMain ==
    \/ \E p \in Tree : Skip(p)
    \/ \E p \in Tree : Fix(p)
    \/ \E p \in Tree : ReadError(p)
    \/ \E p \in Tree : WriteError(p)
    \/ NextExt
    \/ Summary

SpecMain == InitMain /\ [][NextMain]_vars

----------------------------------------------------------------------------
(* Single-file specification: one file, the normalizer run on it           *)
(* repeatedly.                                                             *)

InitFix ==
    /\ file \in Contents
    /\ runs = <<>>
    /\ MainNotStarted

\* One call of fix_use_client_in_file(filepath) on the file.
Normalize ==
    /\ Len(runs) < MaxRuns
    /\ LET r == fix_use_client_in_file(file)
       IN  /\ file' = r.disk
           /\ runs' = Append(runs, [before |-> file, after |-> r.disk, ret |-> r.ret,
                                    wrote |-> r.wrote, exit |-> r.exit])
    /\ UNCHANGED mvars

NextFix == Normalize

SpecFix == InitFix /\ [][NextFix]_vars

----------------------------------------------------------------------------
(* Vocabulary of the properties.                                           *)

\* The lines of a file as the program sees them.
LinesOf(bytes) == Split(ReadText(bytes))

\* Number of occurrences of the marker literal.
MarkerCount(s) == Cardinality({i \in 1..Len(s) : s[i] = MARKER})

\* Index of the first line that contains the marker literal.
FirstMarkerLine(lines) ==
    CHOOSE k \in 1..Len(lines) : HasMarker(lines[k]) /\ \A j \in 1..(k - 1) : ~HasMarker(lines[j])

\* lines without its k-th element.
RemoveAt(lines, k) == SubSeq(lines, 1, k - 1) \o SubSeq(lines, k + 1, Len(lines))

\* lines without the empty lines at its start.
RECURSIVE DropLeadingEmpty(_)
DropLeadingEmpty(lines) ==
    IF lines # <<>> /\ lines[1] = <<>> THEN DropLeadingEmpty(Tail(lines)) ELSE lines

\* Number of empty lines at the start of lines.
LeadingEmpty(lines) == Len(lines) - Len(DropLeadingEmpty(lines))

Run(i) == runs[i]
RunIdx == 1..Len(runs)

----------------------------------------------------------------------------
\* C1: running the normalizer again on the file it has just processed
\* returns "unchanged" and leaves the content as the previous run left it.
C1_Idempotent ==
    \A i \in RunIdx : i >= 2 => /\ Run(i).ret = FALSE
                                /\ Run(i).after = Run(i - 1).after

C1_Witness == Len(runs) >= 2 /\ Run(1).ret = TRUE /\ Run(2).ret = FALSE

\* C2: after a run the marker literal occurs at most once in the file.
C2_MarkerAtMostOnce ==
    \A i \in RunIdx : MarkerCount(Run(i).after) <= 1

\* C3 (as stated): if the file contained the marker, then after the run,
\* changed or not, line 1 is exactly the canonical statement and line 2 is
\* empty.
C3_Original ==
    \A i \in RunIdx :
        HasMarker(Run(i).before) =>
            LET ls == LinesOf(Run(i).after)
            IN  ls[1] = Canonical /\ Len(ls) >= 2 /\ ls[2] = <<>>

\* C3 (amended): if the file contained the marker, then after the run line 1
\* trimmed is the canonical statement; when the run reported "changed", line 1
\* is exactly the canonical statement, line 2 is empty and line 3 is not empty
\* unless the file ends there.
C3_Amended ==
    \A i \in RunIdx :
        HasMarker(Run(i).before) =>
            LET ls == LinesOf(Run(i).after)
            IN  /\ Strip(ls[1]) = Canonical
                /\ Run(i).ret => /\ ls[1] = Canonical
                                 /\ Len(ls) >= 3
                                 /\ ls[2] = <<>>
                                 /\ (ls[3] # <<>> \/ Len(ls) = 3)

C3_Witness ==
    /\ Len(runs) >= 1
    /\ Run(1).ret
    /\ Strip(LinesOf(Run(1).before)[1]) # Canonical
    /\ Len(LinesOf(Run(1).after)) > 3

\* A file whose first line is the canonical statement, followed by two or
\* more empty lines and then a non-empty line.
MarkerThenBlankRun(bytes) ==
    LET ls == LinesOf(bytes)
    IN  /\ ls[1] = Canonical
        /\ LeadingEmpty(Tail(ls)) >= 2
        /\ DropLeadingEmpty(Tail(ls)) # <<>>

\* C4 (as stated): a file with the canonical statement on line 1, then two or
\* more empty lines, then code has exactly one empty line between marker and
\* code after the run.
C4_Original ==
    \A i \in RunIdx :
        MarkerThenBlankRun(Run(i).before) =>
            LET ls == LinesOf(Run(i).after)
            IN  ls[1] = Canonical /\ ls[2] = <<>> /\ ls[3] # <<>>

\* C4 (amended): the collapse happens only when the file is rewritten: if the
\* run reports "changed" and the lines left after taking out the marker line
\* start with one or more empty lines followed by a non-empty line, the result
\* is the marker line, one empty line, then that non-empty line; a file with
\* the canonical statement on line 1 followed by a run of empty lines is left
\* as it is.
C4_Amended ==
    \A i \in RunIdx :
        LET before == LinesOf(Run(i).before)
            after == LinesOf(Run(i).after)
        IN  /\ Run(i).ret =>
                 LET rest == RemoveAt(before, FirstMarkerLine(before))
                 IN  (LeadingEmpty(rest) >= 1 /\ DropLeadingEmpty(rest) # <<>>) =>
                         /\ after[1] = Canonical
                         /\ after[2] = <<>>
                         /\ after[3] = DropLeadingEmpty(rest)[1]
                         /\ after[3] # <<>>
            /\ MarkerThenBlankRun(Run(i).before) =>
                 ~Run(i).ret /\ Run(i).after = Run(i).before

C4_Witness ==
    /\ Len(runs) >= 1
    /\ Run(1).ret
    /\ LET before == LinesOf(Run(1).before)
           rest == RemoveAt(before, FirstMarkerLine(before))
       IN  LeadingEmpty(rest) >= 2 /\ DropLeadingEmpty(rest) # <<>>

\* C5: a run that returns "unchanged" did not open the file for writing and
\* left its bytes as they were; every file without the marker literal and
\* every file whose first line trimmed is the canonical statement gets this
\* outcome.
C5_UnchangedUntouched ==
    \A i \in RunIdx :
        /\ ~Run(i).ret => (~Run(i).wrote /\ Run(i).after = Run(i).before)
        /\ (\/ ~HasMarker(Run(i).before)
            \/ Strip(LinesOf(Run(i).before)[1]) = Canonical) => ~Run(i).ret

C5_Witness ==
    /\ Len(runs) >= 1
    /\ ~Run(1).ret
    /\ LET ls == LinesOf(Run(1).before)
       IN  /\ Strip(ls[1]) = Canonical
           /\ ls[1] # Canonical
           /\ Len(ls) >= 2
           /\ ls[2] # <<>>

\* The example of the relocation property:
\* "import x;\n'use client';\nexport default x;".
RelocationInput == <<CH, NL, MARKER, SEMI, NL, CH>>
RelocationOutput == <<MARKER, SEMI, NL, NL, CH, NL, CH>>

C10_ChangedIff ==
    \A i \in RunIdx :
        /\ Run(i).ret <=> (/\ HasMarker(ReadText(Run(i).before))
                           /\ Strip(LinesOf(Run(i).before)[1]) # Canonical)
        /\ Run(i).wrote <=> Run(i).ret
        /\ Run(i).exit # "not_found"

C10_Witness ==
    /\ \E i \in RunIdx : Run(i).exit = "fixed" /\ MarkerCount(Run(i).before) >= 2
    /\ \E i \in RunIdx : Run(i).exit = "already_top"

----------------------------------------------------------------------------
(* Properties of main.                                                     *)

\* The number of "Fixed: <p>" lines printed.
FixedLines(p) == Cardinality({i \in 1..Len(out) : out[i] = <<"Fixed", p>>})

\* The files whose bytes differ from what they were when main started.
ChangedOnDisk == {p \in Tree : fs[p] # fs0[p]}

\* p lies under a directory called name.
RECURSIVE Segments(_)
Segments(p) ==
    IF \A i \in 1..Len(p) : p[i] # "/" THEN <<p>>
    ELSE LET k == CHOOSE i \in 1..Len(p) : p[i] = "/" /\ \A j \in 1..(i - 1) : p[j] # "/"
         IN  <<SubSeq(p, 1, k - 1)>> \o Segments(SubSeq(p, k + 1, Len(p)))

UnderDir(name, p) ==
    LET segs == Segments(p)
    IN  \E i \in 1..(Len(segs) - 1) : segs[i] = <<name>>

\* C7: when main has finished, the reported total is the number of files
\* whose bytes differ from before the run, and a file has a "Fixed" line,
\* exactly one, if and only if its bytes differ.
C7_CountAccurate ==
    pc = "done" =>
        /\ out[Len(out)] = <<"Total files fixed", Cardinality(ChangedOnDisk)>>
        /\ fixed_count = Cardinality(ChangedOnDisk)
        /\ \A p \in Tree : FixedLines(p) = (IF p \in ChangedOnDisk THEN 1 ELSE 0)

C7_Witness ==
    /\ pc = "done"
    /\ fixed_count >= 1
    /\ \E p \in passed : HasMarker(fs0[p]) /\ fs[p] = fs0[p]
    /\ \E p \in passed : ~HasMarker(fs0[p])

\* C8: no file under a directory named node_modules or .next is handed to
\* fix_use_client_in_file, and such a file keeps its bytes.
C8_ScopeExclusion ==
    \A p \in Tree :
        (UnderDir(NODE_MODULES, p) \/ UnderDir(DOT_NEXT, p)) =>
            p \notin passed /\ fs[p] = fs0[p]

C8_Witness ==
    /\ pc = "done"
    /\ fixed_count >= 1
    /\ \E p \in Tree : /\ UnderDir(DOT_NEXT, p)
                       /\ fix_use_client_in_file(fs0[p]).ret
                       /\ fs[p] = fs0[p]
    /\ \E p \in Tree : /\ UnderDir(NODE_MODULES, p)
                       /\ fix_use_client_in_file(fs0[p]).ret
                       /\ fs[p] = fs0[p]

\* C9: once an open, read or write has failed, no further file is read or
\* written, the counter stays, nothing more is printed, the summary line is
\* absent, and every file reported as fixed holds its rewritten content.
C9_FailFast ==
    /\ [](io_failed =>
            /\ \A i \in 1..Len(out) : out[i][1] # "Total files fixed"
            /\ \A p \in Tree : FixedLines(p) = 1 => fs[p] = fix_use_client_in_file(fs0[p]).disk)
    /\ [][io_failed => UNCHANGED <<fs, fixed_count, out, passed>>]_vars

C9_Witness ==
    /\ io_failed
    /\ fixed_count >= 1
    /\ \E p \in pending : ~Excluded(p) /\ p \notin passed /\ fix_use_client_in_file(fs[p]).ret

====
